---- MODULE Spec2Model ----
(***************************************************************************)
(* Model of doc-assist: a retrieval-augmented generation service.          *)
(*   src/src/core/text_processor.py      chunk_text, extract, clean_text   *)
(*   src/src/core/document_utils.py      the file store                    *)
(*   src/src/core/vector_store.py        the vector index adapter          *)
(*   src/src/core/document_processor.py  the document pipeline             *)
(*   src/src/llm/llm_utils.py            the generation client             *)
(*   src/src/core/rag.py                 the orchestrator                  *)
(*   src/src/api/routes.py               the HTTP surface                  *)
(* Texts and byte strings are sequences of code points (integers);         *)
(* filenames are sequences of one-character strings.                       *)
(***************************************************************************)
EXTENDS Integers, Sequences, FiniteSets, TLC

VARIABLES
    rag_engine,   \* routes.py:21, the global instance: "None" | "RAGEngine"
    files,        \* the upload directory: filename -> bytes
    index,        \* the vector collection: the stored entries, oldest first
    ingests,      \* process_and_store_document / add_document_chunks calls so far
    last,         \* the last request or call and what it was answered
    collection,   \* vector_store.py:20, VectorStore.collection: "None" | "documents"
    reported,     \* the successful ingests so far: filename and reported chunk count
    constructions, \* RAGEngine() calls that returned an instance
    requests,     \* the uploads suspended at `await file.read()`
    ct_text,      \* chunk_text: argument text
    ct_size,      \* chunk_text: argument chunk_size
    ct_overlap,   \* chunk_text: argument overlap
    ct_start,     \* chunk_text: local start
    ct_chunks,    \* chunk_text: local chunks
    ct_pc         \* chunk_text: "call" | "loop" | "done"

ctvars == <<ct_text, ct_size, ct_overlap, ct_start, ct_chunks, ct_pc>>
sysvars == <<rag_engine, files, index, ingests, last,
            collection, reported, constructions, requests>>
vars == <<rag_engine, files, index, ingests, last,
          collection, reported, constructions, requests,
          ct_text, ct_size, ct_overlap, ct_start, ct_chunks, ct_pc>>

(***************************************************************************)
(* Bounds of the chunk_text inputs.                                        *)
(***************************************************************************)
MaxLen == 5          \* longest enumerated text
MaxWindow == 3       \* largest enumerated chunk_size
MaxOverlap == 3      \* largest enumerated overlap
MaxIter == 8         \* cap on loop iterations of a run that never ends

(***************************************************************************)
(* Bounds of the requests.                                                 *)
(***************************************************************************)
MaxIngests == 2      \* calls that reach the pipeline or add to the index
SmallIndex == 6      \* largest index of which every hit set is enumerated
LongLen == 1100      \* length of the long plain-text upload (two chunks)

Alphabet == {97, 98, 99}

\* test_chunk_text_large_text: "A" * 1000 + "B" * 1000, chunk_size=500, overlap=100
ExampleHalf == 1000
ExampleWindow == 500
ExampleOverlap == 100
ExampleText == [i \in 1..(2 * ExampleHalf) |-> IF i <= ExampleHalf THEN 65 ELSE 66]

Min(a, b) == IF a <= b THEN a ELSE b
Max(a, b) == IF a >= b THEN a ELSE b

\* Python's slice index: a negative index counts from the end, then clamps
PyIndex(i, n) == IF i < 0 THEN Max(i + n, 0) ELSE Min(i, n)

\* Python's text[start:end]
Slice(text, start, end) ==
    LET s == PyIndex(start, Len(text))
        e == PyIndex(end, Len(text))
    IN IF s < e THEN SubSeq(text, s + 1, e) ELSE <<>>

Texts == UNION {[1..n -> Alphabet] : n \in 0..MaxLen}

(***************************************************************************)
(* chunk_text, text_processor.py:11-39                                     *)
(***************************************************************************)
\* a plausible slip: the early return is dropped, every text enters the loop
chunk_entry_noearly(text, chunk_size) ==
    [returned |-> FALSE, chunks |-> <<>>, start |-> 0]

\* lines 23-27: the early return, else the loop's initial locals
chunk_entry(text, chunk_size) ==
    IF Len(text) <= chunk_size
    THEN [returned |-> TRUE, chunks |-> <<text>>, start |-> 0]
    ELSE [returned |-> FALSE, chunks |-> <<>>, start |-> 0]

\* a plausible slip: the next window starts where the last one ended
chunk_advance_nooverlap(end, overlap) == end

\* line 37: start = end - overlap
chunk_advance(end, overlap) == end - overlap

\* a plausible slip: the window is one character short
chunk_window_short(text, start, chunk_size) ==
    Slice(text, start, start + chunk_size - 1)

\* lines 30-31: end = start + chunk_size; chunk = text[start:end]
chunk_window(text, start, chunk_size) ==
    Slice(text, start, start + chunk_size)

\* lines 29-37: one evaluation of the while condition and of the loop body
chunk_step(text, chunk_size, overlap, start, chunks) ==
    IF start < Len(text)
    THEN LET end == start + chunk_size
             out == Append(chunks, chunk_window(text, start, chunk_size))
         IN IF end >= Len(text)
            THEN [done |-> TRUE, chunks |-> out, start |-> start]
            ELSE [done |-> FALSE, chunks |-> out,
                  start |-> chunk_advance(end, overlap)]
    ELSE [done |-> TRUE, chunks |-> chunks, start |-> start]

RECURSIVE chunk_loop(_, _, _, _, _)
\* lines 29-39: the while loop, run to its return
chunk_loop(text, chunk_size, overlap, start, chunks) ==
    LET s == chunk_step(text, chunk_size, overlap, start, chunks)
    IN IF s.done THEN s.chunks
       ELSE chunk_loop(text, chunk_size, overlap, s.start, s.chunks)

\* chunk_text(text, chunk_size, overlap), for overlap < chunk_size
chunk_text(text, chunk_size, overlap) ==
    LET e == chunk_entry(text, chunk_size)
    IN IF e.returned THEN e.chunks
       ELSE chunk_loop(text, chunk_size, overlap, e.start, e.chunks)

(***************************************************************************)
(* Filenames and their extensions.                                         *)
(***************************************************************************)
\* the last position of character c in s, 0 when absent (Python's rfind + 1)
RFind(s, c) ==
    LET P == {i \in 1..Len(s) : s[i] = c}
    IN IF P = {} THEN 0 ELSE CHOOSE i \in P : \A j \in P : j <= i

\* str.lower() on the letters the filenames use
LowerChar(c) ==
    CASE c = "T" -> "t"
      [] c = "X" -> "x"
      [] c = "P" -> "p"
      [] c = "D" -> "d"
      [] c = "F" -> "f"
      [] OTHER -> c

lower(s) == [i \in 1..Len(s) |-> LowerChar(s[i])]

\* a plausible slip: everything from the last dot on, wherever the dot is
splitext_ext_lastdot(p) ==
    LET dotIndex == RFind(p, ".")
    IN IF dotIndex > 0 THEN SubSeq(p, dotIndex, Len(p)) ELSE <<>>

\* os.path.splitext(p)[1]: from the last dot of the last path component,
\* unless that component has only dots before it
splitext_ext(p) ==
    LET sepIndex == RFind(p, "/")
        dotIndex == RFind(p, ".")
    IN IF dotIndex > sepIndex
          /\ \E k \in (sepIndex + 1)..(dotIndex - 1) : p[k] # "."
       THEN SubSeq(p, dotIndex, Len(p))
       ELSE <<>>

RECURSIVE StripTrailingSep(_)
StripTrailingSep(p) ==
    IF Len(p) > 1 /\ p[Len(p)] = "/" THEN StripTrailingSep(SubSeq(p, 1, Len(p) - 1))
    ELSE p

\* pathlib: Path(p).name, the last path component
path_name(p) ==
    LET q == StripTrailingSep(p)
    IN SubSeq(q, RFind(q, "/") + 1, Len(q))

\* pathlib: Path(p).suffix, from the last dot of the name when that dot is
\* neither its first nor its last character
path_suffix(p) ==
    LET name == path_name(p)
        i == RFind(name, ".")
    IN IF 1 < i /\ i < Len(name) THEN SubSeq(name, i, Len(name)) ELSE <<>>

EXT_PDF == <<".", "p", "d", "f">>
EXT_DOCX == <<".", "d", "o", "c", "x">>
EXT_TXT == <<".", "t", "x", "t">>

\* config.py:33
SUPPORTED_EXTENSIONS == {EXT_PDF, EXT_DOCX, EXT_TXT}

(***************************************************************************)
(* Text extraction and normalisation, text_processor.py:41-117             *)
(***************************************************************************)
RECURSIVE utf8_from(_, _)
\* bytes.decode('utf-8') from position i on, for one- and two-byte sequences:
\* the decoded code points, or a failure at the first invalid byte
utf8_from(b, i) ==
    IF i > Len(b) THEN [ok |-> TRUE, text |-> <<>>]
    ELSE IF b[i] < 128
    THEN LET r == utf8_from(b, i + 1)
         IN [ok |-> r.ok, text |-> <<b[i]>> \o r.text]
    ELSE IF b[i] >= 194 /\ b[i] <= 223 /\ i < Len(b)
            /\ b[i + 1] >= 128 /\ b[i + 1] <= 191
    THEN LET r == utf8_from(b, i + 2)
         IN [ok |-> r.ok, text |-> <<(b[i] - 192) * 64 + (b[i + 1] - 128)>> \o r.text]
    ELSE [ok |-> FALSE, text |-> <<>>]

\* an all-ASCII byte string decodes to the same code points
decode_utf8(b) ==
    IF \A i \in 1..Len(b) : b[i] < 128 THEN [ok |-> TRUE, text |-> b]
    ELSE utf8_from(b, 1)

\* bytes.decode('latin-1'): byte n is code point n, never fails
decode_latin1(b) == b

\* lines 55-63: the .txt branch
extract_txt(content) ==
    LET u == decode_utf8(content)
    IN IF u.ok THEN u.text ELSE decode_latin1(content)

\* extract_text_from_bytes; lib is what the PDF / DOCX library does with the
\* bytes: it fails (lib.ok = FALSE) or extracts lib.text
extract_text_from_bytes(content, file_extension, lib) ==
    LET ext == lower(file_extension)
    IN IF ext = EXT_TXT
       THEN [exc |-> "none", text |-> extract_txt(content)]
       ELSE IF ext = EXT_PDF
       THEN IF ~lib.ok
            THEN [exc |-> "Failed to extract text from PDF", text |-> <<>>]
            ELSE [exc |-> "none", text |-> lib.text]
       ELSE IF ext = EXT_DOCX
       THEN IF ~lib.ok
            THEN [exc |-> "Failed to extract text from DOCX", text |-> <<>>]
            ELSE [exc |-> "none", text |-> lib.text]
       ELSE [exc |-> "Unsupported file type", text |-> <<>>]

\* str.isspace() for code points below 256
WHITESPACE == {9, 10, 11, 12, 13, 28, 29, 30, 31, 32, 133, 160}
NEWLINE == 10
SPACE == 32

RECURSIVE SplitAt(_, _, _)
\* the segments of text[from..] between the characters in seps, empty ones kept
SplitAt(text, seps, from) ==
    LET P == {i \in from..Len(text) : text[i] \in seps}
    IN IF P = {} THEN <<SubSeq(text, from, Len(text))>>
       ELSE LET p == CHOOSE i \in P : \A j \in P : i <= j
            IN <<SubSeq(text, from, p - 1)>> \o SplitAt(text, seps, p + 1)

NonEmpty(w) == w # <<>>

\* str.split('\n')
split_lines(text) == SplitAt(text, {NEWLINE}, 1)

\* str.split(): the words between runs of whitespace
split_words(line) == SelectSeq(SplitAt(line, WHITESPACE, 1), NonEmpty)

RECURSIVE JoinFrom(_, _, _)
JoinFrom(parts, k, sep) ==
    IF k > Len(parts) THEN <<>>
    ELSE <<sep>> \o parts[k] \o JoinFrom(parts, k + 1, sep)

\* sep.join(parts)
join(parts, sep) ==
    IF parts = <<>> THEN <<>> ELSE parts[1] \o JoinFrom(parts, 2, sep)

\* line 113: ' '.join(line.split())
clean_line(line) == join(split_words(line), SPACE)

\* a plausible slip: the `if cleaned_line` test is missing
clean_text_keep_empty(text) ==
    LET lines == split_lines(text)
    IN join([i \in 1..Len(lines) |-> clean_line(lines[i])], NEWLINE)

\* clean_text, lines 106-117
clean_text(text) ==
    LET lines == split_lines(text)
        cleaned_lines ==
            SelectSeq([i \in 1..Len(lines) |-> clean_line(lines[i])], NonEmpty)
    IN join(cleaned_lines, NEWLINE)

(***************************************************************************)
(* The file store, document_utils.py                                       *)
(***************************************************************************)
\* str(config.UPLOAD_DIR) followed by the path separator
DATA_DIR == <<"d", "a", "t", "a", "/">>

\* save_document: the file of that name now holds content; returns the path
save_document(fs, filename, content) ==
    [files |-> [n \in (DOMAIN fs) \cup {filename} |->
                   IF n = filename THEN content ELSE fs[n]],
     file_path |-> DATA_DIR \o filename]

\* list_documents: the names of the stored files
list_documents(fs) == DOMAIN fs

(***************************************************************************)
(* The vector index adapter, vector_store.py                               *)
(***************************************************************************)
\* a plausible slip: chunk indices counted from 1
chunk_metadata_onebased(document_name, i, chunk) ==
    [document_name |-> document_name, chunk_index |-> i + 1,
     chunk_length |-> Len(chunk)]

\* lines 55-59: the metadata of chunk i (0-based)
chunk_metadata(document_name, i, chunk) ==
    [document_name |-> document_name, chunk_index |-> i,
     chunk_length |-> Len(chunk)]

\* a plausible slip: the chunks stored under the name are replaced
add_document_chunks_replace(idx, chunks, document_name) ==
    LET OtherName(e) == e.metadata.document_name # document_name
    IN SelectSeq(idx, OtherName)
       \o [k \in 1..Len(chunks) |->
              [id |-> <<document_name, k - 1, Len(idx) + k>>,
               text |-> chunks[k],
               metadata |-> [document_name |-> document_name, chunk_index |-> k - 1,
                             chunk_length |-> Len(chunks[k])]]]

\* a plausible slip: the id is the document name and the position alone
chunk_id_unsuffixed(idx, document_name, i) == <<document_name, i, 0>>

\* line 51: the id of chunk i; uuid4 is modelled as a value no stored id
\* carries (the number of ids in the index plus the chunk's position)
chunk_id(idx, document_name, i) == <<document_name, i, Len(idx) + i + 1>>

\* add_document_chunks, lines 50-71: one entry per chunk, appended
add_document_chunks(idx, chunks, document_name) ==
    idx \o [k \in 1..Len(chunks) |->
               [id |-> chunk_id(idx, document_name, k - 1),
                text |-> chunks[k],
                metadata |-> chunk_metadata(document_name, k - 1, chunks[k])]]

\* the stored entries at the positions in hits, in index order
HitsInOrder(idx, hits, k) ==
    LET Hit(i) == i >= k /\ i \in hits
        at == SelectSeq([i \in 1..Len(idx) |-> i], Hit)
    IN [j \in 1..Len(at) |-> idx[at[j]]]

Reverse(s) == [k \in 1..Len(s) |-> s[Len(s) + 1 - k]]

\* the order in which the engine ranks the hits is its own: the model lets it
\* be the order of storage or the reverse
HitOrders == {"stored", "reversed"}
Ranked(found, order) == IF order = "reversed" THEN Reverse(found) ELSE found

\* line 87
NO_COLLECTION == "No collection initialized. Call get_or_create_collection() first."

\* a plausible slip: an adapter without a collection answers like an empty one
search_similar_chunks_empty(coll, idx, query, n_results, env) ==
    IF env.search = "fault"
    THEN [exc |-> "vector store fault", hits |-> <<>>, collection |-> coll]
    ELSE [exc |-> "none", hits |-> Ranked(HitsInOrder(idx, env.hits, 1), env.order),
          collection |-> coll]

\* search_similar_chunks, lines 86-100: the error it raises ("none": it
\* returns), the hits (the parallel lists chunks / metadata / ids, zipped),
\* and the adapter's collection after the call. env.search = "fault" is the
\* engine's query raising, env.hits the positions it returns.
search_similar_chunks(coll, idx, query, n_results, env) ==
    IF coll = "None"
    THEN [exc |-> NO_COLLECTION, hits |-> <<>>, collection |-> coll]
    ELSE IF env.search = "fault"
    THEN [exc |-> "vector store fault", hits |-> <<>>, collection |-> coll]
    ELSE [exc |-> "none", hits |-> Ranked(HitsInOrder(idx, env.hits, 1), env.order),
          collection |-> coll]

\* get_collection_info, lines 102-117 (the collection is initialized by
\* DocumentProcessor.__init__)
get_collection_info(idx) == [count |-> Len(idx)]

(***************************************************************************)
(* The document pipeline, document_processor.py                            *)
(***************************************************************************)
\* document_processor.py:58
CHUNK_SIZE == 1000
CHUNK_OVERLAP == 200

\* the error a fault injected at a step carries
FaultError(step) ==
    CASE step = "save" -> "fault at save"
      [] step = "extract" -> "fault at extract"
      [] step = "clean" -> "fault at clean"
      [] step = "chunk" -> "fault at chunk"
      [] step = "add" -> "fault at add"
      [] OTHER -> "fault"

\* a plausible slip: a failing ingest takes its file out of the store again
process_steps_rollback(fs, idx, filename, content, env) ==
    LET saved == save_document(fs, filename, content)
        file_extension == lower(path_suffix(filename))
        extracted == extract_text_from_bytes(content, file_extension, env.lib)
        cleaned_text == clean_text(extracted.text)
        chunks == chunk_text(cleaned_text, CHUNK_SIZE, CHUNK_OVERLAP)
        fail(e) == [exc |-> e, files |-> fs, index |-> idx,
                    file_path |-> <<>>, text_length |-> 0, num_chunks |-> 0]
    IN IF env.fault \in {"save", "extract"} THEN fail(FaultError(env.fault))
       ELSE IF extracted.exc # "none" THEN fail(extracted.exc)
       ELSE IF env.fault \in {"clean", "chunk", "add"} THEN fail(FaultError(env.fault))
       ELSE [exc |-> "none", files |-> saved.files,
             index |-> add_document_chunks(idx, chunks, filename),
             file_path |-> saved.file_path,
             text_length |-> Len(cleaned_text),
             num_chunks |-> Len(chunks)]

\* lines 44-77: the steps of the try block. env.fault names the step at which
\* the environment raises ("none": nowhere), env.lib is the PDF / DOCX
\* library's outcome. exc = "none" when the block reaches its return.
process_steps(fs, idx, filename, content, env) ==
    LET saved == save_document(fs, filename, content)
        file_extension == lower(path_suffix(filename))
        extracted == extract_text_from_bytes(content, file_extension, env.lib)
        cleaned_text == clean_text(extracted.text)
        chunks == chunk_text(cleaned_text, CHUNK_SIZE, CHUNK_OVERLAP)
        fail(e, f) == [exc |-> e, files |-> f, index |-> idx,
                       file_path |-> <<>>, text_length |-> 0, num_chunks |-> 0]
    IN IF env.fault = "save" THEN fail(FaultError("save"), fs)
       ELSE IF env.fault = "extract" THEN fail(FaultError("extract"), saved.files)
       ELSE IF extracted.exc # "none" THEN fail(extracted.exc, saved.files)
       ELSE IF env.fault = "clean" THEN fail(FaultError("clean"), saved.files)
       ELSE IF env.fault = "chunk" THEN fail(FaultError("chunk"), saved.files)
       ELSE IF env.fault = "add" THEN fail(FaultError("add"), saved.files)
       ELSE [exc |-> "none", files |-> saved.files,
             index |-> add_document_chunks(idx, chunks, filename),
             file_path |-> saved.file_path,
             text_length |-> Len(cleaned_text),
             num_chunks |-> Len(chunks)]

\* a plausible slip: no except clause, the fault leaves the method
process_result_uncaught(filename, steps) ==
    IF steps.exc = "none"
    THEN [status |-> "success", filename |-> filename,
          file_path |-> steps.file_path, text_length |-> steps.text_length,
          num_chunks |-> steps.num_chunks,
          message |-> <<"Successfully processed", filename>>]
    ELSE [status |-> "raised", error |-> steps.exc]

\* a plausible slip: num_chunks is given the length of the cleaned text
process_result_text_length(filename, steps) ==
    IF steps.exc = "none"
    THEN [status |-> "success", filename |-> filename,
          file_path |-> steps.file_path, text_length |-> steps.text_length,
          num_chunks |-> steps.text_length,
          message |-> <<"Successfully processed", filename>>]
    ELSE [status |-> "error", filename |-> filename, error |-> steps.exc,
          message |-> <<"Failed to process", filename, steps.exc>>]

\* lines 70-86: the success result, or the except clause's error result
process_result(filename, steps) ==
    IF steps.exc = "none"
    THEN [status |-> "success", filename |-> filename,
          file_path |-> steps.file_path, text_length |-> steps.text_length,
          num_chunks |-> steps.num_chunks,
          message |-> <<"Successfully processed", filename>>]
    ELSE [status |-> "error", filename |-> filename, error |-> steps.exc,
          message |-> <<"Failed to process", filename, steps.exc>>]

\* process_and_store_document: the result and the stores it leaves
process_and_store_document(fs, idx, filename, content, env) ==
    LET steps == process_steps(fs, idx, filename, content, env)
    IN [result |-> process_result(filename, steps),
        files |-> steps.files, index |-> steps.index]

\* the hit sets a query for n_results neighbours can return: the index
\* holds Len(idx) entries, the engine picks min(n_results, Len(idx)) of them
PossibleHits(idx, n_results) ==
    {h \in SUBSET (1..Len(idx)) : Cardinality(h) = Min(n_results, Len(idx))}

\* lines 105-113 of search_documents: one hit reshaped (the similarity score, 1 - distance, is
\* left out: the distance is the engine's)
format_hit(e) ==
    [chunk_text |-> e.text, document_name |-> e.metadata.document_name,
     chunk_index |-> e.metadata.chunk_index, chunk_id |-> e.id]

\* a plausible slip: a search without hits is reported as a failure
search_documents_needs_hits(idx, query, n_results, env) ==
    LET results == search_similar_chunks("documents", idx, query, n_results, env)
        formatted_results ==
            [k \in 1..Len(results.hits) |-> format_hit(results.hits[k])]
    IN IF results.exc # "none" \/ results.hits = <<>>
       THEN [status |-> "error", query |-> query, error |-> "no results",
             message |-> "Search failed"]
       ELSE [status |-> "success", query |-> query,
             num_results |-> Len(formatted_results),
             results |-> formatted_results,
             message |-> "Found relevant chunks"]

\* search_documents, lines 88-129, on the adapter DocumentProcessor.__init__
\* initialized (coll = "documents")
search_documents(idx, query, n_results, env) ==
    LET results == search_similar_chunks("documents", idx, query, n_results, env)
        formatted_results ==
            [k \in 1..Len(results.hits) |-> format_hit(results.hits[k])]
    IN IF results.exc # "none"
       THEN [status |-> "error", query |-> query, error |-> results.exc,
             message |-> "Search failed"]
       ELSE [status |-> "success", query |-> query,
             num_results |-> Len(formatted_results),
             results |-> formatted_results,
             message |-> "Found relevant chunks"]

\* a plausible slip: the documents are taken from the index, not the file store
list_processed_documents_from_index(fs, idx, env) ==
    LET names == {idx[k].metadata.document_name : k \in 1..Len(idx)}
    IN IF env.list_ok
       THEN [status |-> "success", file_count |-> Cardinality(names),
             vector_chunk_count |-> get_collection_info(idx).count,
             documents |-> names, message |-> "Found processed documents"]
       ELSE [status |-> "error", error |-> "listing fault",
             message |-> "Failed to list documents"]

\* list_processed_documents, lines 131-158: env.list_ok = FALSE is the file
\* store or the index raising
list_processed_documents(fs, idx, env) ==
    IF env.list_ok
    THEN [status |-> "success", file_count |-> Cardinality(list_documents(fs)),
          vector_chunk_count |-> get_collection_info(idx).count,
          documents |-> list_documents(fs), message |-> "Found processed documents"]
    ELSE [status |-> "error", error |-> "listing fault",
          message |-> "Failed to list documents"]

\* document_processor.py:174, the result cap of get_document_chunks
ALL_CHUNKS_N_RESULTS == 100

RECURSIVE Merge(_, _)
\* two lists sorted by chunk_index merged, entries of a first among equals
\* (split at the middle entry m of a: the entries of b below m go before it)
Merge(a, b) ==
    IF a = <<>> THEN b
    ELSE IF b = <<>> THEN a
    ELSE LET h == (Len(a) + 1) \div 2
             Below(e) == e.chunk_index < a[h].chunk_index
             n == Len(SelectSeq(b, Below))
         IN Merge(SubSeq(a, 1, h - 1), SubSeq(b, 1, n))
              \o <<a[h]>>
              \o Merge(SubSeq(a, h + 1, Len(a)), SubSeq(b, n + 1, Len(b)))

\* a plausible slip: the chunks are returned as the engine ranked them
sort_by_chunk_index_missing(document_chunks) == document_chunks

RECURSIVE sort_by_chunk_index(_)
\* line 190: document_chunks.sort(key = chunk_index); list.sort is stable
sort_by_chunk_index(document_chunks) ==
    IF Len(document_chunks) <= 1 THEN document_chunks
    ELSE LET h == Len(document_chunks) \div 2
         IN Merge(sort_by_chunk_index(SubSeq(document_chunks, 1, h)),
                  sort_by_chunk_index(SubSeq(document_chunks, h + 1,
                                             Len(document_chunks))))

\* lines 181-186: one hit of the requested document reshaped
chunk_info(e) ==
    [chunk_text |-> e.text, chunk_index |-> e.metadata.chunk_index,
     chunk_length |-> e.metadata.chunk_length, chunk_id |-> e.id]

\* get_document_chunks, lines 160-206, on the adapter
\* DocumentProcessor.__init__ initialized
get_document_chunks(idx, document_name, env) ==
    LET results == search_similar_chunks("documents", idx, document_name,
                                         ALL_CHUNKS_N_RESULTS, env)
        OfDocument(e) == e.metadata.document_name = document_name
        kept == SelectSeq(results.hits, OfDocument)
        document_chunks ==
            sort_by_chunk_index([k \in 1..Len(kept) |-> chunk_info(kept[k])])
    IN IF results.exc # "none"
       THEN [status |-> "error", document_name |-> document_name,
             error |-> results.exc, message |-> "Failed to get chunks"]
       ELSE [status |-> "success", document_name |-> document_name,
             num_chunks |-> Len(document_chunks), chunks |-> document_chunks,
             message |-> "Found chunks"]

(***************************************************************************)
(* The generation client, llm_utils.py                                     *)
(***************************************************************************)
\* config.py:17
OLLAMA_MODEL == "llama3.2:1b"

\* test_connection, lines 34-57: never raises
test_connection(env) == env.llm_up

\* a plausible slip: no except clause, the fault leaves generate_answer
generate_failure_uncaught(exc) == [raised |-> exc]

\* lines 153-160: the except clause
generate_failure(exc) ==
    [answer |-> "", sources |-> {}, model_used |-> OLLAMA_MODEL,
     success |-> FALSE, error_message |-> exc]

\* generate_answer, lines 114-160: env.gen = "prompt" is create_rag_prompt
\* raising, env.gen = "fault" the inference server's call raising
generate_answer(query, relevant_chunks, env) ==
    IF env.gen = "prompt" THEN generate_failure("prompt fault")
    ELSE IF env.gen = "fault" THEN generate_failure("inference fault")
    ELSE [answer |-> "generated answer",
          sources |-> {relevant_chunks[k].document_name : k \in 1..Len(relevant_chunks)},
          model_used |-> OLLAMA_MODEL, success |-> TRUE, error_message |-> "None"]

\* answer_question_with_context, lines 162-183
answer_question_with_context(query, document_chunks, env) ==
    LET llm_response == generate_answer(query, document_chunks, env)
    IN [query |-> query, answer |-> llm_response.answer,
        sources |-> llm_response.sources, model_used |-> llm_response.model_used,
        success |-> llm_response.success, error |-> llm_response.error_message,
        num_sources |-> Len(document_chunks)]

(***************************************************************************)
(* The orchestrator, rag.py                                                *)
(***************************************************************************)
\* config.py:20
MAX_CHUNKS == 5

\* a plausible slip: the two checks of _verify_connections are not made
RAGEngine_init_unverified(fs, idx, env) ==
    IF ~env.chroma_ok THEN "vector store unavailable" ELSE "none"

\* __init__ and _verify_connections, lines 17-52: the error construction
\* raises, "none" when it completes. env.chroma_ok = FALSE is
\* DocumentProcessor() raising.
RAGEngine_init(fs, idx, env) ==
    IF ~env.chroma_ok THEN "vector store unavailable"
    ELSE IF ~test_connection(env) THEN "Failed to connect to Ollama LLM"
    ELSE IF list_processed_documents(fs, idx, env).status # "success"
    THEN "Failed to initialize document processor"
    ELSE "none"

\* dict.get(key, default)
get(d, key, default) == IF key \in DOMAIN d THEN d[key] ELSE default

\* a plausible slip: ready when either check passes
system_ready_either(llm_status, doc_status) == llm_status \/ doc_status

\* line 170: llm_status and doc_status
system_ready(llm_status, doc_status) == llm_status /\ doc_status

\* lines 173-179: the except clause of get_system_status
status_fault(exc) ==
    [llm_connected |-> FALSE, document_system_ready |-> FALSE,
     system_ready |-> FALSE, error |-> exc]

\* get_system_status, lines 149-179. env.status = "escape" is a fault leaving
\* test_connection or list_processed_documents.
get_system_status(fs, idx, env) ==
    LET llm_status == test_connection(env)
        doc_info == list_processed_documents(fs, idx, env)
        doc_status == doc_info.status = "success"
    IN IF env.status = "escape" THEN status_fault("status raised")
       ELSE [llm_connected |-> llm_status, document_system_ready |-> doc_status,
             total_documents |-> get(doc_info, "file_count", 0),
             total_chunks |-> get(doc_info, "vector_chunk_count", 0),
             model_name |-> OLLAMA_MODEL,
             system_ready |-> system_ready(llm_status, doc_status)]

\* lines 80-87, with the error read from the wrong key
search_failure_answer_wrongkey(question, search_results) ==
    [question |-> question, answer |-> "Failed to search documents.",
     sources |-> {}, success |-> FALSE,
     error |-> IF "detail" \in DOMAIN search_results
               THEN search_results.detail ELSE "Unknown search error",
     chunks_found |-> 0]

\* lines 80-87: the answer to a failed search
search_failure_answer(question, search_results) ==
    [question |-> question, answer |-> "Failed to search documents.",
     sources |-> {}, success |-> FALSE,
     error |-> IF "error" \in DOMAIN search_results
               THEN search_results.error ELSE "Unknown search error",
     chunks_found |-> 0]

NO_INFORMATION == "I couldn't find any relevant information in the uploaded documents"

\* lines 91-98: the answer to a search without hits
no_hits_answer(question) ==
    [question |-> question, answer |-> NO_INFORMATION, sources |-> {},
     success |-> TRUE, error |-> "None", chunks_found |-> 0]

\* a plausible slip: the zero-hit check is missing
no_hits_never(search_results) == FALSE

\* line 90: if search_results["num_results"] == 0
no_hits(search_results) == search_results.num_results = 0

\* lines 107-115: the generation client's answer, augmented
generated_answer(question, search_results, llm_response) ==
    [question |-> question, answer |-> llm_response.answer,
     sources |-> llm_response.sources, success |-> llm_response.success,
     error |-> llm_response.error, chunks_found |-> search_results.num_results,
     model_used |-> llm_response.model_used]

\* a plausible slip: no except clause, the fault leaves ask_question
fault_answer_uncaught(question, exc) == [raised |-> exc]

\* lines 117-125: the except clause
fault_answer(question, exc) ==
    [question |-> question,
     answer |-> "An error occurred while processing your question.",
     sources |-> {}, success |-> FALSE, error |-> exc, chunks_found |-> 0]

\* ask_question, lines 70-125: the result and the collaborators called.
\* env.search / env.gen = "escape" is a fault leaving search_documents /
\* answer_question_with_context instead of being reported in its result.
ask_question(idx, question, n_chunks, max_chunks, env) ==
    LET n == IF n_chunks # 0 THEN n_chunks ELSE max_chunks
        search_results == search_documents(idx, question, n, env)
        llm_response == answer_question_with_context(question, search_results.results, env)
    IN IF env.search = "escape"
       THEN [result |-> fault_answer(question, "search raised"),
             calls |-> {"search"}, search_status |-> "raised", num_results |-> 0]
       ELSE IF search_results.status # "success"
       THEN [result |-> search_failure_answer(question, search_results),
             calls |-> {"search"}, search_status |-> search_results.status,
             num_results |-> 0]
       ELSE IF no_hits(search_results)
       THEN [result |-> no_hits_answer(question),
             calls |-> {"search"}, search_status |-> "success", num_results |-> 0]
       ELSE IF env.gen = "escape"
       THEN [result |-> fault_answer(question, "generation raised"),
             calls |-> {"search", "generate"}, search_status |-> "success",
             num_results |-> search_results.num_results]
       ELSE [result |-> generated_answer(question, search_results, llm_response),
             calls |-> {"search", "generate"}, search_status |-> "success",
             num_results |-> search_results.num_results]

(***************************************************************************)
(* The HTTP surface, routes.py                                             *)
(***************************************************************************)
\* a plausible slip: the `if rag_engine is None` test is missing
get_rag_engine_always(engine, fs, idx, env) ==
    LET e == RAGEngine_init(fs, idx, env)
    IN IF e = "none"
       THEN [engine |-> "RAGEngine", exc |-> "none", constructed |-> TRUE]
       ELSE [engine |-> engine, exc |-> "Failed to initialize RAG engine",
             constructed |-> FALSE]

\* a plausible slip: the global is assigned before the checks have passed,
\* and a failed instance stays in it
get_rag_engine_keeps_failed(engine, fs, idx, env) ==
    IF engine = "None"
    THEN LET e == RAGEngine_init(fs, idx, env)
         IN IF e = "none"
            THEN [engine |-> "RAGEngine", exc |-> "none", constructed |-> TRUE]
            ELSE [engine |-> "FailedRAGEngine",
                  exc |-> "Failed to initialize RAG engine", constructed |-> FALSE]
    ELSE [engine |-> engine, exc |-> "none", constructed |-> FALSE]

\* get_rag_engine, lines 23-35: the instance after the call, the 503 it
\* raises when construction fails, and whether RAGEngine() returned an instance
get_rag_engine(engine, fs, idx, env) ==
    IF engine = "None"
    THEN LET e == RAGEngine_init(fs, idx, env)
         IN IF e = "none"
            THEN [engine |-> "RAGEngine", exc |-> "none", constructed |-> TRUE]
            ELSE [engine |-> "None", exc |-> "Failed to initialize RAG engine",
                  constructed |-> FALSE]
    ELSE [engine |-> engine, exc |-> "none", constructed |-> FALSE]

\* a plausible slip: the allow-list check is missing
upload_allowed_any(filename) == TRUE

\* lines 70-72: the allow-list check on the lower-cased extension
upload_allowed(filename) == lower(splitext_ext(filename)) \in SUPPORTED_EXTENSIONS

NoResult == [status |-> "not called"]

\* lines 73-76: the answer to a filename outside the allow-list
upload_declined(engine, fs, idx) ==
    [code |-> 400, detail |-> "Unsupported file type", body |-> <<>>,
     result |-> NoResult, engine |-> engine, constructed |-> FALSE,
     files |-> fs, index |-> idx]

\* lines 78-106: the try block, from `await file.read()` on.
\* env.fault = "read" is file.read() raising.
upload_resume(engine, fs, idx, filename, content, env) ==
    LET g == get_rag_engine(engine, fs, idx, env)
        r == process_and_store_document(fs, idx, filename, content, env)
        resp(c, d, b, res, eng, con, f, i) ==
            [code |-> c, detail |-> d, body |-> b, result |-> res,
             engine |-> eng, constructed |-> con, files |-> f, index |-> i]
    IN IF env.fault = "read"
       THEN resp(500, "Upload failed", <<>>, NoResult, engine, FALSE, fs, idx)
       ELSE IF g.exc # "none"
       THEN resp(503, g.exc, <<>>, NoResult, g.engine, g.constructed, fs, idx)
       ELSE IF r.result.status = "raised"
       THEN resp(500, "Upload failed", <<>>, r.result, g.engine, g.constructed,
                 r.files, r.index)
       ELSE IF r.result.status # "success"
       THEN resp(500, "Failed to process document", <<>>, r.result, g.engine,
                 g.constructed, r.files, r.index)
       ELSE resp(200, "", [status |-> r.result.status, filename |-> r.result.filename,
                           message |-> r.result.message,
                           num_chunks |-> r.result.num_chunks,
                           file_path |-> r.result.file_path],
                 r.result, g.engine, g.constructed, r.files, r.index)

\* upload_document, lines 63-106
upload_document(engine, fs, idx, filename, content, env) ==
    IF ~upload_allowed(filename)
    THEN upload_declined(engine, fs, idx)
    ELSE upload_resume(engine, fs, idx, filename, content, env)

QuestionResponseKeys == {"question", "answer", "sources", "success",
                         "chunks_found", "model_used"}

\* ask_question, lines 140-167: result[...] on a key the result lacks raises
\* KeyError, and every fault in the try block, the 503 of get_rag_engine
\* included, is answered 500
http_ask_question(engine, fs, idx, question, max_chunks, env) ==
    LET g == get_rag_engine(engine, fs, idx, env)
        a == ask_question(idx, question, max_chunks, MAX_CHUNKS, env)
        resp(c, d, b, res, calls, st, n) ==
            [code |-> c, detail |-> d, body |-> b, result |-> res,
             engine |-> g.engine, constructed |-> g.constructed,
             calls |-> calls, search_status |-> st, num_results |-> n]
    IN IF g.exc # "none"
       THEN resp(500, "Question processing failed", <<>>, NoResult, {}, "not called", 0)
       ELSE IF ~(QuestionResponseKeys \subseteq DOMAIN a.result)
       THEN resp(500, "Question processing failed", <<>>, a.result, a.calls,
                 a.search_status, a.num_results)
       ELSE resp(200, "", [question |-> a.result.question, answer |-> a.result.answer,
                           sources |-> a.result.sources, success |-> a.result.success,
                           chunks_found |-> a.result.chunks_found,
                           model_used |-> a.result.model_used,
                           error |-> a.result.error],
                 a.result, a.calls, a.search_status, a.num_results)

\* health_check, lines 38-60: every fault in the try block, the 503 of
\* get_rag_engine included, is answered 500
health_check(engine, fs, idx, env) ==
    LET g == get_rag_engine(engine, fs, idx, env)
        status_info == get_system_status(fs, idx, env)
    IN IF g.exc # "none"
       THEN [code |-> 500, detail |-> "Health check failed", body |-> <<>>,
             result |-> NoResult, engine |-> g.engine, constructed |-> g.constructed]
       ELSE [code |-> 200, detail |-> "",
             body |-> [system_ready |-> get(status_info, "system_ready", FALSE),
                       llm_connected |-> get(status_info, "llm_connected", FALSE),
                       document_system_ready |->
                           get(status_info, "document_system_ready", FALSE),
                       total_documents |-> get(status_info, "total_documents", 0),
                       total_chunks |-> get(status_info, "total_chunks", 0),
                       model_name |-> get(status_info, "model_name", "unknown")],
             result |-> status_info, engine |-> g.engine,
             constructed |-> g.constructed]

\* list_documents, lines 109-137: an HTTPException raised in the try block is
\* raised again as it is
http_list_documents(engine, fs, idx, env) ==
    LET g == get_rag_engine(engine, fs, idx, env)
        result == list_processed_documents(fs, idx, env)
        resp(c, d, b, res) ==
            [code |-> c, detail |-> d, body |-> b, result |-> res,
             engine |-> g.engine, constructed |-> g.constructed]
    IN IF g.exc # "none" THEN resp(503, g.exc, <<>>, NoResult)
       ELSE IF result.status # "success"
       THEN resp(500, "Failed to list documents", <<>>, result)
       ELSE resp(200, "", [status |-> result.status, documents |-> result.documents,
                           file_count |-> result.file_count,
                           vector_chunk_count |-> result.vector_chunk_count],
                 result)

(***************************************************************************)
(* The requests the model sends.                                           *)
(***************************************************************************)
FN_TXT == <<"a", ".", "t", "x", "t">>
FN_UPPER == <<"b", ".", "T", "X", "T">>
FN_PDF == <<"c", ".", "p", "d", "f">>
FN_DOCX == <<"d", ".", "d", "o", "c", "x">>
FN_EXE == <<"e", ".", "e", "x", "e">>
FN_NOEXT == <<"t", "x", "t">>
Filenames == {FN_TXT, FN_UPPER, FN_PDF, FN_DOCX, FN_EXE, FN_NOEXT}

\* " a  b\n\n c " : leading, repeated and trailing blanks, an empty line
ShortDoc == <<32, 97, 32, 32, 98, 10, 10, 32, 99, 32>>
EmptyDoc == <<>>
\* words of letters, two blanks after every 400th character, one line
LongDoc == [i \in 1..LongLen |-> IF i % 400 \in {0, 1} THEN 32 ELSE 97 + (i % 3)]
\* the bytes of a binary upload, "%PDF"
BinaryDoc == <<37, 80, 68, 70>>

ContentsOf(filename) ==
    IF filename = FN_TXT THEN {ShortDoc, EmptyDoc, LongDoc}
    ELSE IF filename = FN_UPPER THEN {ShortDoc}
    ELSE {BinaryDoc}

\* what the PDF / DOCX library makes of BinaryDoc
LibOutcomes == {[ok |-> FALSE, text |-> <<>>], [ok |-> TRUE, text |-> <<80, 32, 49>>]}
LibOutcomesOf(filename) ==
    IF lower(path_suffix(filename)) \in {EXT_PDF, EXT_DOCX} THEN LibOutcomes
    ELSE {[ok |-> FALSE, text |-> <<>>]}

\* where the environment raises during an upload; a name outside the
\* allow-list is sent without faults
UploadFaults == {"none", "read", "save", "extract", "clean", "chunk", "add"}
FaultsOf(filename) ==
    IF filename \in {FN_EXE, FN_NOEXT} THEN {"none"} ELSE UploadFaults

\* the environment of a construction: at most one check fails
CtorOk == [chroma_ok |-> TRUE, llm_up |-> TRUE, list_ok |-> TRUE]
CtorEnvs == {CtorOk,
             [chroma_ok |-> FALSE, llm_up |-> TRUE, list_ok |-> TRUE],
             [chroma_ok |-> TRUE, llm_up |-> FALSE, list_ok |-> TRUE],
             [chroma_ok |-> TRUE, llm_up |-> TRUE, list_ok |-> FALSE]}
CtorEnvsNow == IF rag_engine = "None" THEN CtorEnvs ELSE {CtorOk}

\* the environment of a health or list request: that of the construction
\* when the request constructs, else any outcome of the two checks
CheckEnvs == {[chroma_ok |-> TRUE, llm_up |-> a, list_ok |-> b] : a, b \in BOOLEAN}
CheckEnvsNow == IF rag_engine = "None" THEN CtorEnvs ELSE CheckEnvs

Questions == {"q1"}
\* max_chunks of the request: 0 is falsy and falls back to MAX_CHUNKS
MaxChunksInputs == {0, 1}

\* the collection handle of the retained engine's adapter: set by
\* DocumentProcessor.__init__ (document_processor.py:27-28)
handle(engine) == IF engine = "None" THEN "None" ELSE "documents"

\* the ingests that returned success, oldest first
record_ingest(history, result) ==
    IF result.status = "success"
    THEN Append(history, [filename |-> result.filename,
                          num_chunks |-> result.num_chunks])
    ELSE history

\* the number of instances RAGEngine() has returned
count_instance(n, constructed) == IF constructed THEN n + 1 ELSE n

\* the last request reached get_rag_engine
ReachedEngine ==
    \/ last.op \in {"ask", "health", "list"}
    \/ (last.op = "upload" /\ upload_allowed(last.filename) /\ last.fault # "read")

\* the request before this one called RAGEngine() and the call raised
FailedBefore == ReachedEngine /\ rag_engine = "None"

SysInit ==
    /\ rag_engine = "None"
    /\ files = <<>>
    /\ index = <<>>
    /\ ingests = 0
    /\ last = [op |-> "none"]
    /\ collection = "None"
    /\ reported = <<>>
    /\ constructions = 0
    /\ requests = <<>>

ChunkIdle ==
    /\ ct_text = <<>>
    /\ ct_size = 1
    /\ ct_overlap = 0
    /\ ct_start = 0
    /\ ct_chunks = <<>>
    /\ ct_pc = "idle"

Init == SysInit /\ ChunkIdle

\* POST /documents/upload. The pipeline is reached by an allowed filename
\* whose bytes were read, with an engine at hand; the model sends such an
\* upload while fewer than MaxIngests have been sent.
Upload ==
    \E filename \in Filenames :
    \E content \in ContentsOf(filename) :
    \E fault \in FaultsOf(filename) :
    \E lib \in LibOutcomesOf(filename) :
    \E ctor \in CtorEnvsNow :
        /\ (upload_allowed(filename) /\ fault # "read" /\ ctor = CtorOk)
              => ingests < MaxIngests
        /\ \E out \in {upload_document(rag_engine, files, index, filename, content,
                                       [fault |-> fault, lib |-> lib,
                                        chroma_ok |-> ctor.chroma_ok,
                                        llm_up |-> ctor.llm_up,
                                        list_ok |-> ctor.list_ok])} :
           \E called \in {out.result # NoResult} :
               /\ called => ingests < MaxIngests
               /\ rag_engine' = out.engine
               /\ files' = out.files
               /\ index' = out.index
               /\ ingests' = IF called THEN ingests + 1 ELSE ingests
               /\ last' = [op |-> "upload", ctor |-> ctor, retry |-> FailedBefore,
                           filename |-> filename, content |-> content,
                           fault |-> fault, lib_ok |-> lib.ok, code |-> out.code,
                           detail |-> out.detail, body |-> out.body,
                           result |-> out.result]
               /\ collection' = handle(out.engine)
               /\ reported' = record_ingest(reported, out.result)
               /\ constructions' = count_instance(constructions, out.constructed)
               /\ UNCHANGED requests
               /\ UNCHANGED ctvars

\* POST /documents/query
Ask ==
    \E question \in Questions :
    \E max_chunks \in MaxChunksInputs :
    \E ctor \in CtorEnvsNow :
    \E search \in {"ok", "fault", "escape"} :
    \E hits \in (IF search = "ok"
                 THEN PossibleHits(index, IF max_chunks # 0 THEN max_chunks ELSE MAX_CHUNKS)
                 ELSE {{}}) :
    \E gen \in (IF hits # {} THEN {"ok", "fault", "escape"} ELSE {"ok"}) :
        LET env == [search |-> search, hits |-> hits, order |-> "stored", gen |-> gen,
                    chroma_ok |-> ctor.chroma_ok, llm_up |-> ctor.llm_up,
                    list_ok |-> ctor.list_ok]
        IN \E out \in {http_ask_question(rag_engine, files, index, question, max_chunks, env)} :
           /\ rag_engine' = out.engine
           /\ last' = [op |-> "ask", ctor |-> ctor, retry |-> FailedBefore,
                       question |-> question, code |-> out.code,
                       detail |-> out.detail, body |-> out.body,
                       result |-> out.result, calls |-> out.calls,
                       search_status |-> out.search_status,
                       num_results |-> out.num_results, gen |-> gen]
           /\ collection' = handle(out.engine)
           /\ constructions' = count_instance(constructions, out.constructed)
           /\ UNCHANGED <<files, index, ingests, reported, requests>>
           /\ UNCHANGED ctvars

\* GET /health
Health ==
    \E ctor \in CheckEnvsNow :
    \E fault \in {"ok", "escape"} :
        LET env == [chroma_ok |-> ctor.chroma_ok, llm_up |-> ctor.llm_up,
                    list_ok |-> ctor.list_ok, status |-> fault]
        IN \E out \in {health_check(rag_engine, files, index, env)} :
           /\ rag_engine' = out.engine
           /\ last' = [op |-> "health", ctor |-> ctor, retry |-> FailedBefore,
                       fault |-> fault,
                       code |-> out.code, detail |-> out.detail, body |-> out.body,
                       result |-> out.result]
           /\ collection' = handle(out.engine)
           /\ constructions' = count_instance(constructions, out.constructed)
           /\ UNCHANGED <<files, index, ingests, reported, requests>>
           /\ UNCHANGED ctvars

\* GET /documents/
List ==
    \E ctor \in CheckEnvsNow :
        LET env == [chroma_ok |-> ctor.chroma_ok, llm_up |-> ctor.llm_up,
                    list_ok |-> ctor.list_ok]
        IN \E out \in {http_list_documents(rag_engine, files, index, env)} :
           /\ rag_engine' = out.engine
           /\ last' = [op |-> "list", ctor |-> ctor, retry |-> FailedBefore,
                       code |-> out.code,
                       detail |-> out.detail, body |-> out.body,
                       result |-> out.result]
           /\ collection' = handle(out.engine)
           /\ constructions' = count_instance(constructions, out.constructed)
           /\ UNCHANGED <<files, index, ingests, reported, requests>>
           /\ UNCHANGED ctvars

Next == Upload \/ Ask \/ Health \/ List

Spec == Init /\ [][Next]_vars

ChunkInit ==
    /\ \/ /\ ct_text \in Texts
          /\ ct_size \in 1..MaxWindow
          /\ ct_overlap \in 0..MaxOverlap
       \/ /\ ct_text = ExampleText
          /\ ct_size = ExampleWindow
          /\ ct_overlap = ExampleOverlap
    /\ ct_start = 0
    /\ ct_chunks = <<>>
    /\ ct_pc = "call"
    /\ SysInit

ChunkCall ==
    /\ ct_pc = "call"
    /\ LET e == chunk_entry(ct_text, ct_size)
       IN /\ ct_chunks' = e.chunks
          /\ ct_start' = e.start
          /\ ct_pc' = IF e.returned THEN "done" ELSE "loop"
    /\ UNCHANGED <<ct_text, ct_size, ct_overlap>>
    /\ UNCHANGED sysvars

ChunkIter ==
    /\ ct_pc = "loop"
    /\ Len(ct_chunks) < MaxIter
    /\ LET s == chunk_step(ct_text, ct_size, ct_overlap, ct_start, ct_chunks)
       IN /\ ct_chunks' = s.chunks
          /\ ct_start' = s.start
          /\ ct_pc' = IF s.done THEN "done" ELSE "loop"
    /\ UNCHANGED <<ct_text, ct_size, ct_overlap>>
    /\ UNCHANGED sysvars

ChunkNext == ChunkCall \/ ChunkIter

SpecChunk == ChunkInit /\ [][ChunkNext]_vars

\* a call that has started keeps running: the interpreter takes the next
\* step of chunk_text whenever there is one
SpecChunkFair == SpecChunk /\ WF_vars(ChunkNext)

(***************************************************************************)
(* The components called directly, as the unit tests call them: the        *)
(* adapter (VectorStore), the pipeline (DocumentProcessor, whose __init__  *)
(* creates the adapter and its collection, document_processor.py:27-28)    *)
(* and the generation client.                                              *)
(***************************************************************************)
UnitNames == {FN_TXT, FN_PDF}

TwoChunks == << <<97, 98>>, <<98>> >>
\* as many one-character chunks as get_document_chunks asks the engine for
ManyChunks == [k \in 1..ALL_CHUNKS_N_RESULTS |-> <<97>>]

\* the chunk lists handed to add_document_chunks; the long one goes into an
\* empty index only
ChunkListsNow ==
    IF index = <<>> THEN {TwoChunks, ManyChunks} ELSE {TwoChunks}

\* the document the pipeline is handed, and where the environment raises
UnitContents == {ShortDoc}
UnitFaults == {"none", "extract", "add"}
\* the names the pipeline is handed: a plain-text one and, as in
\* test_process_and_store_document_invalid_format, one no extractor handles
IngestNames == {FN_TXT, FN_EXE}
IngestContents(filename) == IF filename = FN_TXT THEN UnitContents ELSE {BinaryDoc}

NResultsInputs == {2}

\* the hit sets the model lets the engine return: every set of
\* min(n_results, Len(idx)) entries for an index of up to SmallIndex
\* entries, the n_results oldest or the n_results newest for a larger one
EngineHits(idx, n_results) ==
    IF Len(idx) <= n_results THEN {1..Len(idx)}
    ELSE IF Len(idx) <= SmallIndex THEN PossibleHits(idx, n_results)
    ELSE {1..n_results, (Len(idx) - n_results + 1)..Len(idx)}

\* VectorStore.get_or_create_collection, vector_store.py:22-36
GetOrCreateCollection ==
    /\ collection' = "documents"
    /\ last' = [op |-> "get_or_create_collection"]
    /\ UNCHANGED <<rag_engine, files, index, ingests, reported, constructions, requests>>
    /\ UNCHANGED ctvars

\* VectorStore.add_document_chunks, vector_store.py:38-73; lines 47-48
\* create the collection when there is none
AddChunks ==
    \E document_name \in UnitNames :
    \E chunks \in ChunkListsNow :
        /\ ingests < MaxIngests
        /\ collection' = "documents"
        /\ index' = add_document_chunks(index, chunks, document_name)
        /\ ingests' = ingests + 1
        /\ last' = [op |-> "add_document_chunks", document_name |-> document_name,
                    num_chunks |-> Len(chunks)]
        /\ UNCHANGED <<rag_engine, files, reported, constructions, requests>>
        /\ UNCHANGED ctvars

\* VectorStore.search_similar_chunks, vector_store.py:75-100
SearchSimilar ==
    \E query \in Questions :
    \E n_results \in NResultsInputs :
    \E search \in {"ok", "fault"} :
    \E hits \in (IF search = "ok" THEN EngineHits(index, n_results) ELSE {{}}) :
        LET env == [search |-> search, hits |-> hits, order |-> "stored"]
        IN \E out \in {search_similar_chunks(collection, index, query, n_results, env)} :
           /\ collection' = out.collection
           /\ last' = [op |-> "search_similar_chunks", n_results |-> n_results,
                       search |-> search, exc |-> out.exc, hits |-> out.hits]
           /\ UNCHANGED <<rag_engine, files, index, ingests, reported,
                          constructions, requests>>
           /\ UNCHANGED ctvars

\* DocumentProcessor.process_and_store_document
Ingest ==
    \E filename \in IngestNames :
    \E content \in IngestContents(filename) :
    \E fault \in UnitFaults :
    \E lib \in LibOutcomesOf(filename) :
        LET env == [fault |-> fault, lib |-> lib]
        IN \E out \in {process_and_store_document(files, index, filename, content, env)} :
           /\ collection = "documents"
           /\ ingests < MaxIngests
           /\ files' = out.files
           /\ index' = out.index
           /\ ingests' = ingests + 1
           /\ reported' = record_ingest(reported, out.result)
           /\ last' = [op |-> "process_and_store_document", filename |-> filename,
                       content |-> content, fault |-> fault, result |-> out.result]
           /\ UNCHANGED <<rag_engine, collection, constructions, requests>>
           /\ UNCHANGED ctvars

\* DocumentProcessor.search_documents
SearchDocuments ==
    \E query \in Questions :
    \E n_results \in NResultsInputs :
    \E search \in {"ok", "fault"} :
    \E hits \in (IF search = "ok" THEN EngineHits(index, n_results) ELSE {{}}) :
        LET env == [search |-> search, hits |-> hits, order |-> "stored"]
        IN \E out \in {search_documents(index, query, n_results, env)} :
           /\ collection = "documents"
           /\ last' = [op |-> "search_documents", n_results |-> n_results,
                       search |-> search, result |-> out]
           /\ UNCHANGED <<rag_engine, files, index, ingests, collection, reported,
                          constructions, requests>>
           /\ UNCHANGED ctvars

\* DocumentProcessor.get_document_chunks
GetDocumentChunks ==
    \E document_name \in UnitNames \cup {FN_EXE} :
    \E search \in {"ok", "fault"} :
    \E hits \in (IF search = "ok" THEN EngineHits(index, ALL_CHUNKS_N_RESULTS)
                 ELSE {{}}) :
    \E order \in HitOrders :
        LET env == [search |-> search, hits |-> hits, order |-> order]
        IN \E out \in {get_document_chunks(index, document_name, env)} :
           /\ collection = "documents"
           /\ last' = [op |-> "get_document_chunks", document_name |-> document_name,
                       search |-> search, order |-> order, result |-> out]
           /\ UNCHANGED <<rag_engine, files, index, ingests, collection, reported,
                          constructions, requests>>
           /\ UNCHANGED ctvars

\* OllamaClient.generate_answer on chunks a search returned
Generate ==
    \E query \in Questions :
    \E n_results \in NResultsInputs :
    \E hits \in EngineHits(index, n_results) :
    \E gen \in {"ok", "prompt", "fault"} :
        LET found == HitsInOrder(index, hits, 1)
            relevant_chunks == [k \in 1..Len(found) |-> format_hit(found[k])]
        IN \E out \in {generate_answer(query, relevant_chunks, [gen |-> gen])} :
           /\ last' = [op |-> "generate_answer", query |-> query,
                       relevant_chunks |-> relevant_chunks, gen |-> gen,
                       result |-> out]
           /\ UNCHANGED <<rag_engine, files, index, ingests, collection, reported,
                          constructions, requests>>
           /\ UNCHANGED ctvars

\* DocumentProcessor.list_processed_documents, the call through which the
\* orchestrator's listing and status read the file store and the index
ListProcessed ==
    \E list_ok \in BOOLEAN :
    \E out \in {list_processed_documents(files, index, [list_ok |-> list_ok])} :
        /\ collection = "documents"
        /\ last' = [op |-> "list_processed_documents", list_ok |-> list_ok,
                    result |-> out]
        /\ UNCHANGED <<rag_engine, files, index, ingests, collection, reported,
                       constructions, requests>>
        /\ UNCHANGED ctvars

ComponentsNext ==
    \/ ListProcessed
    \/ GetOrCreateCollection
    \/ AddChunks
    \/ SearchSimilar
    \/ Ingest
    \/ SearchDocuments
    \/ GetDocumentChunks
    \/ Generate

SpecComponents == Init /\ [][ComponentsNext]_vars

(***************************************************************************)
(* Concurrent requests in one process.  The handlers of routes.py are      *)
(* coroutines of one event loop: a handler runs until it awaits.  The only *)
(* await in a handler is `await file.read()` of upload_document (line 80); *)
(* get_rag_engine and RAGEngine() are synchronous.  An upload is therefore *)
(* two steps, with any number of steps of other requests in between; the   *)
(* other handlers are one step each.                                       *)
(***************************************************************************)
ConcFilenames == {FN_TXT, FN_EXE}
ConcContents(filename) == IF filename = FN_TXT THEN {ShortDoc} ELSE {BinaryDoc}
ConcFaults == {"none", "read", "add"}

RemoveAt(s, i) == SubSeq(s, 1, i - 1) \o SubSeq(s, i + 1, Len(s))

\* upload_document up to its await, lines 70-80: a declined filename is
\* answered at once; any other request is suspended in file.read().
\* `seen` is the value of the global rag_engine when the request arrived.
UploadBegin ==
    \E filename \in ConcFilenames :
    \E content \in ConcContents(filename) :
        IF ~upload_allowed(filename)
        THEN \E out \in {upload_declined(rag_engine, files, index)} :
               /\ last' = [op |-> "upload", filename |-> filename,
                           content |-> content, fault |-> "none",
                           code |-> out.code, detail |-> out.detail,
                           body |-> out.body, result |-> out.result]
               /\ rag_engine' = out.engine
               /\ constructions' = count_instance(constructions, out.constructed)
               /\ UNCHANGED <<files, index, ingests, collection, reported, requests>>
               /\ UNCHANGED ctvars
        ELSE /\ ingests + Len(requests) < MaxIngests
             /\ requests' = Append(requests, [filename |-> filename,
                                               content |-> content,
                                               seen |-> rag_engine])
             /\ last' = [op |-> "upload_begin", filename |-> filename]
             /\ UNCHANGED <<rag_engine, files, index, ingests, collection,
                            reported, constructions>>
             /\ UNCHANGED ctvars

\* upload_document from the return of file.read() on, lines 80-106, for
\* any one of the suspended requests
UploadResume ==
    \E i \in 1..Len(requests) :
    \E fault \in ConcFaults :
    \E ctor \in CtorEnvsNow :
    \E req \in {requests[i]} :
    \E out \in {upload_resume(rag_engine, files, index, req.filename, req.content,
                              [fault |-> fault, lib |-> [ok |-> FALSE, text |-> <<>>],
                               chroma_ok |-> ctor.chroma_ok,
                               llm_up |-> ctor.llm_up,
                               list_ok |-> ctor.list_ok])} :
    \E called \in {out.result # NoResult} :
        /\ called => ingests < MaxIngests
        /\ requests' = RemoveAt(requests, i)
        /\ rag_engine' = out.engine
        /\ files' = out.files
        /\ index' = out.index
        /\ ingests' = IF called THEN ingests + 1 ELSE ingests
        /\ last' = [op |-> "upload", ctor |-> ctor, seen |-> req.seen,
                    constructed |-> out.constructed,
                    filename |-> req.filename, content |-> req.content,
                    fault |-> fault, lib_ok |-> FALSE, code |-> out.code,
                    detail |-> out.detail, body |-> out.body,
                    result |-> out.result]
        /\ collection' = handle(out.engine)
        /\ reported' = record_ingest(reported, out.result)
        /\ constructions' = count_instance(constructions, out.constructed)
        /\ UNCHANGED ctvars

ConcNext == UploadBegin \/ UploadResume \/ Ask \/ Health \/ List

SpecConc == Init /\ [][ConcNext]_vars

(***************************************************************************)
(* Properties of chunk_text, checked under SpecChunk.                      *)
(***************************************************************************)
RECURSIVE ConcatFrom(_, _, _)
\* chunk k with its leading `cut` characters removed, followed by the same
\* for every later chunk
ConcatFrom(chunks, k, cut) ==
    IF k > Len(chunks) THEN <<>>
    ELSE SubSeq(chunks[k], cut + 1, Len(chunks[k])) \o ConcatFrom(chunks, k + 1, cut)

\* the first chunk, then every later chunk minus its leading overlap
Reconstruct(chunks, overlap) ==
    IF chunks = <<>> THEN <<>> ELSE chunks[1] \o ConcatFrom(chunks, 2, overlap)

\* the last n characters of s (n = 0 gives the empty text)
LastChars(s, n) == SubSeq(s, Len(s) - n + 1, Len(s))

\* the first n characters of s
FirstChars(s, n) == SubSeq(s, 1, n)

\* C7: a text no longer than the window comes back as exactly one chunk,
\* equal to the text.
C7_SingleChunk ==
    (ct_pc = "done" /\ Len(ct_text) <= ct_size) => ct_chunks = <<ct_text>>

C7_Witness ==
    /\ ct_pc = "done"
    /\ Len(ct_text) = ct_size
    /\ ct_chunks = <<ct_text>>

\* C8: for a text longer than the window and 0 <= overlap < window, every
\* chunk after the first begins with exactly the last `overlap` characters of
\* the chunk before it; the 2000-character text with window 500 and overlap
\* 100 gives 5 chunks.
C8_OverlapShared ==
    (ct_pc = "done" /\ Len(ct_text) > ct_size /\ ct_overlap < ct_size) =>
        /\ \A k \in 2..Len(ct_chunks) :
              /\ Len(ct_chunks[k - 1]) >= ct_overlap
              /\ Len(ct_chunks[k]) >= ct_overlap
              /\ FirstChars(ct_chunks[k], ct_overlap)
                    = LastChars(ct_chunks[k - 1], ct_overlap)
        /\ Len(ct_chunks) >= 2
        /\ (ct_text = ExampleText /\ ct_size = ExampleWindow
              /\ ct_overlap = ExampleOverlap) => Len(ct_chunks) = 5

C8_Witness ==
    /\ ct_pc = "done"
    /\ Len(ct_text) > ct_size
    /\ ct_overlap > 0
    /\ ct_overlap < ct_size
    /\ Len(ct_chunks) >= 3
    /\ ct_chunks[2] # ct_chunks[1]

\* C9: the first chunk followed by every later chunk minus its leading
\* `overlap` characters is the chunked text, for every text and every
\* 0 <= overlap < window.
C9_Reconstruct ==
    (ct_pc = "done" /\ ct_overlap < ct_size) =>
        Reconstruct(ct_chunks, ct_overlap) = ct_text

C9_Witness ==
    /\ ct_pc = "done"
    /\ ct_overlap > 0
    /\ ct_overlap < ct_size
    /\ Len(ct_chunks) >= 3
    /\ Reconstruct(ct_chunks, ct_overlap) = ct_text
    /\ Len(ct_text) < ct_size * Len(ct_chunks)

\* the loop cannot leave: the break test `end >= len(text)` and the exit of
\* the while condition are both false, now and after the next advance
NeverLeaves ==
    /\ ct_pc = "loop"
    /\ ct_start <= 0
    /\ ct_start + ct_size < Len(ct_text)

\* C27: chunk_text returns when overlap < chunk_size or the text is no longer
\* than the window, and then its last chunk ends where the text ends; for a
\* text longer than the window and overlap >= chunk_size it never returns,
\* every iteration appending a chunk.
C27_TerminatesIff ==
    /\ (ct_overlap < ct_size \/ Len(ct_text) <= ct_size) ~> (ct_pc = "done")
    /\ []((ct_pc = "done" /\ (ct_overlap < ct_size \/ Len(ct_text) <= ct_size))
            => /\ ct_chunks # <<>>
               /\ ct_chunks[Len(ct_chunks)]
                     = LastChars(ct_text, Len(ct_chunks[Len(ct_chunks)]))
               /\ ct_text # <<>> => ct_chunks[Len(ct_chunks)] # <<>>)
    /\ []((ct_pc # "call" /\ ct_overlap >= ct_size /\ Len(ct_text) > ct_size)
            => NeverLeaves)
    /\ [][(ct_pc = "loop" /\ ct_overlap >= ct_size)
            => Len(ct_chunks') = Len(ct_chunks) + 1]_vars

\* overlap above the window: the start has gone negative and the loop has
\* emitted as many chunks as the model follows it for
C27_Witness ==
    /\ ct_pc = "loop"
    /\ ct_overlap > ct_size
    /\ Len(ct_text) > ct_size
    /\ ct_start < 0
    /\ Len(ct_chunks) = MaxIter

(***************************************************************************)
(* Properties of the service, checked under Spec.                          *)
(***************************************************************************)
\* C1: an upload whose lower-cased extension is outside the allow-list is
\* answered 400 and leaves the file store, the index and the orchestrator
\* instance as they were.
C1_DeclinedBeforeAnything ==
    [][(last'.op = "upload"
          /\ lower(splitext_ext(last'.filename)) \notin {EXT_PDF, EXT_DOCX, EXT_TXT})
       => (last'.code = 400 /\ files' = files /\ index' = index
             /\ rag_engine' = rag_engine /\ ingests' = ingests)]_vars

C1_Witness ==
    /\ last.op = "upload"
    /\ last.filename = FN_EXE
    /\ last.code = 400
    /\ rag_engine = "None"
    /\ DOMAIN files = {}

\* the request was answered by ask_question returning a result
Answered == last.op = "ask" /\ last.search_status # "not called"

\* C2: every outcome ask_question reports as a result is delivered as a 200
\* body carrying the result's fields and success flag; a question against an
\* empty document set yields 200 with success = TRUE and chunks_found = 0.
C2_ResultsDelivered200 ==
    Answered =>
        /\ last.code = 200
        /\ last.body.question = last.question
        /\ last.body.success = last.result.success
        /\ last.body.chunks_found = last.result.chunks_found
        /\ (index = <<>> /\ last.search_status = "success") =>
              (last.body.success = TRUE /\ last.body.chunks_found = 0)

\* C3: a search that succeeds with zero hits gives a successful answer with
\* chunks_found = 0, no sources, no error and the no-information text, and
\* the generation client is not called.
C3_NoHitsIsSuccess ==
    (Answered /\ last.search_status = "success" /\ last.num_results = 0) =>
        /\ last.result.success = TRUE
        /\ last.result.chunks_found = 0
        /\ last.result.sources = {}
        /\ last.result.error = "None"
        /\ last.result.answer = NO_INFORMATION
        /\ "generate" \notin last.calls

C3_Witness ==
    /\ Answered
    /\ last.search_status = "success"
    /\ last.num_results = 0
    /\ last.result.success = TRUE
    /\ DOMAIN files # {}

\* a fault left search_documents or answer_question_with_context
FaultEscaped ==
    \/ last.search_status = "raised"
    \/ (last.gen = "escape" /\ "generate" \in last.calls)

\* C4: ask_question always returns a result, and a fault raised into it
\* yields success = FALSE, chunks_found = 0, no sources and the error detail.
C4_NeverPropagates ==
    Answered =>
        /\ "raised" \notin DOMAIN last.result
        /\ {"question", "answer", "sources", "success", "chunks_found", "error"}
              \subseteq DOMAIN last.result
        /\ FaultEscaped =>
              /\ last.result.success = FALSE
              /\ last.result.chunks_found = 0
              /\ last.result.sources = {}
              /\ last.result.error \in {"search raised", "generation raised"}

C4_Witness ==
    /\ Answered
    /\ last.gen = "escape"
    /\ "generate" \in last.calls
    /\ last.result.success = FALSE
    /\ last.result.error = "generation raised"

\* C5: a search that reports a failure gives success = FALSE with
\* chunks_found = 0, no sources and the search's error, and the generation
\* client is not called.
C5_SearchFailure ==
    (Answered /\ last.search_status = "error") =>
        /\ last.result.success = FALSE
        /\ last.result.chunks_found = 0
        /\ last.result.sources = {}
        /\ last.result.error = "vector store fault"
        /\ "generate" \notin last.calls

C5_Witness ==
    /\ Answered
    /\ last.search_status = "error"
    /\ last.result.success = FALSE
    /\ Len(index) > 0

\* the upload reached process_and_store_document
Ingested == last.op = "upload" /\ last.result # NoResult

\* the error that makes the ingest of the last upload fail, "none" if no step fails
TriggeringError ==
    IF last.fault \in {"save", "extract"} THEN FaultError(last.fault)
    ELSE IF lower(path_suffix(last.filename)) = EXT_PDF /\ ~last.lib_ok
    THEN "Failed to extract text from PDF"
    ELSE IF lower(path_suffix(last.filename)) = EXT_DOCX /\ ~last.lib_ok
    THEN "Failed to extract text from DOCX"
    ELSE IF last.fault \in {"clean", "chunk", "add"} THEN FaultError(last.fault)
    ELSE "none"

\* the texts of the last n entries of the index
LastTexts(n) == [k \in 1..n |-> index[Len(index) - n + k].text]

\* C6: an ingest never raises: a failing step gives a failure result with the
\* filename and the triggering error; otherwise the result is a success with
\* the filename, the storage path, the cleaned-text length and the chunk count.
C6_IngestNeverRaises ==
    Ingested =>
        /\ last.result.status \in {"success", "error"}
        /\ last.result.filename = last.filename
        /\ TriggeringError # "none" =>
              /\ last.result.status = "error"
              /\ last.result.error = TriggeringError
        /\ TriggeringError = "none" =>
              /\ last.result.status = "success"
              /\ last.result.file_path = DATA_DIR \o last.filename
              /\ last.result.num_chunks \in 1..Len(index)
              /\ last.result.text_length
                    = Len(Reconstruct(LastTexts(last.result.num_chunks), CHUNK_OVERLAP))

C6_Witness ==
    /\ Ingested
    /\ last.fault = "add"
    /\ last.result.status = "error"
    /\ last.result.error = "fault at add"
    /\ last.filename \in DOMAIN files

\* the chunk indices stored for a document name, oldest entry first
RECURSIVE IndicesFrom(_, _, _)
IndicesFrom(idx, name, p) ==
    IF p > Len(idx) THEN <<>>
    ELSE (IF idx[p].metadata.document_name = name
          THEN <<idx[p].metadata.chunk_index>> ELSE <<>>)
         \o IndicesFrom(idx, name, p + 1)

StoredNames == {index[p].metadata.document_name : p \in 1..Len(index)}

\* C10 as stated: for every document name the stored chunk indices are
\* 0, 1, 2, ... in order, no value twice.
C10_IndicesStrictlyIncreasing ==
    \A name \in StoredNames :
        LET ix == IndicesFrom(index, name, 1)
        IN \A k \in 1..Len(ix) : ix[k] = k - 1

\* C10 amended: the chunk indices stored for a document name are contiguous
\* from 0 (the values present are 0..m-1), and strictly increasing by one
\* within the entries one ingest adds: an entry with index k > 0 directly
\* follows the entry of the same name with index k - 1.
C10_IndicesContiguousPerIngest ==
    /\ \A name \in StoredNames :
          LET ix == IndicesFrom(index, name, 1)
              vals == {ix[k] : k \in 1..Len(ix)}
          IN \E m \in 1..Len(ix) : vals = 0..(m - 1)
    /\ \A p \in 1..Len(index) :
          index[p].metadata.chunk_index # 0 =>
              /\ p > 1
              /\ index[p - 1].metadata.document_name = index[p].metadata.document_name
              /\ index[p - 1].metadata.chunk_index + 1 = index[p].metadata.chunk_index

C10_Witness ==
    \E name \in StoredNames :
        LET ix == IndicesFrom(index, name, 1)
        IN ix = <<0, 1, 0, 1>>

\* the last step was an upload that reached the pipeline and succeeded
IngestSucceeded == Ingested /\ last.result.status = "success"

\* C11: a successful ingest of a filename the file store already holds keeps
\* one file of that name, now with the new bytes, leaves every other file and
\* every earlier index entry as it was, and appends the new chunks: the index
\* grows by the chunk count the ingest reports, the file count is unchanged.
C11_ReingestAppends ==
    [][(IngestSucceeded' /\ ingests' = ingests + 1
          /\ last'.filename \in DOMAIN files)
       => (/\ DOMAIN files' = DOMAIN files
           /\ files'[last'.filename] = last'.content
           /\ \A n \in DOMAIN files : n # last'.filename => files'[n] = files[n]
           /\ Len(index') = Len(index) + last'.result.num_chunks
           /\ SubSeq(index', 1, Len(index)) = index
           /\ \A p \in (Len(index) + 1)..Len(index') :
                 index'[p].metadata.document_name = last'.filename)]_vars

C11_Witness ==
    /\ IngestSucceeded
    /\ Len(reported) = 2
    /\ reported[1].filename = FN_TXT
    /\ reported[2].filename = FN_TXT
    /\ reported[1].num_chunks = 1
    /\ reported[2].num_chunks = 2
    /\ DOMAIN files = {FN_TXT}
    /\ files[FN_TXT] = LongDoc
    /\ Len(index) = 3
    /\ index[1].metadata.document_name = FN_TXT

\* C26: a successful ingest reports as num_chunks the number of entries it
\* added: the index after it is the index before it followed by num_chunks
\* entries, each tagged with the ingested filename; the response carries
\* the same count.
C26_ReportedCountIsAdded ==
    [][(IngestSucceeded' /\ ingests' = ingests + 1)
       => (/\ Len(index') = Len(index) + last'.result.num_chunks
           /\ SubSeq(index', 1, Len(index)) = index
           /\ \A p \in (Len(index) + 1)..Len(index') :
                 index'[p].metadata.document_name = last'.filename
           /\ last'.code = 200
           /\ last'.body.num_chunks = last'.result.num_chunks)]_vars

\* a two-chunk ingest of one name, then a one-chunk ingest of another
C26_Witness ==
    /\ IngestSucceeded
    /\ last.filename = FN_UPPER
    /\ last.result.num_chunks = 1
    /\ Len(index) = 3
    /\ index[1].metadata.document_name = FN_TXT
    /\ index[2].metadata.document_name = FN_TXT
    /\ index[3].metadata.document_name = FN_UPPER

\* the cleaned text of a plain-text upload is empty
CleansToNothing(filename, content) ==
    /\ lower(path_suffix(filename)) = EXT_TXT
    /\ clean_text(extract_txt(content)) = <<>>

\* C29: chunk_text never returns an empty list, so every successful ingest
\* reports at least one chunk; the ingest of a plain-text document whose
\* cleaned text is empty adds exactly one entry, of empty text, and reports
\* num_chunks = 1.
C29_AtLeastOneChunk ==
    [][(IngestSucceeded' /\ ingests' = ingests + 1)
       => (/\ last'.result.num_chunks >= 1
           /\ Len(index') > Len(index)
           /\ CleansToNothing(last'.filename, last'.content)
              => (/\ last'.result.num_chunks = 1
                  /\ last'.result.text_length = 0
                  /\ Len(index') = Len(index) + 1
                  /\ index'[Len(index')].text = <<>>
                  /\ index'[Len(index')].metadata.chunk_index = 0
                  /\ index'[Len(index')].metadata.chunk_length = 0))]_vars

\* an empty plain-text file ingested after a non-empty one
C29_Witness ==
    /\ IngestSucceeded
    /\ last.filename = FN_TXT
    /\ last.content = EmptyDoc
    /\ last.result.num_chunks = 1
    /\ Len(index) = 2
    /\ index[1].text # <<>>
    /\ index[2].text = <<>>

\* C16: a request that finds no instance and constructs while the
\* generation-server check returns false or the document-subsystem check does
\* not report success gets a failure, is served by no instance, and leaves
\* no instance behind.
C16_ConstructionFailFast ==
    [][(rag_engine = "None" /\ ReachedEngine'
          /\ (~last'.ctor.llm_up \/ ~last'.ctor.list_ok))
       => (/\ rag_engine' = "None"
           /\ constructions' = constructions
           /\ collection' = "None"
           /\ last'.result = NoResult
           /\ last'.code \in {500, 503}
           /\ files' = files
           /\ index' = index)]_vars

C16_Witness ==
    /\ last.op = "list"
    /\ last.ctor.llm_up
    /\ ~last.ctor.list_ok
    /\ last.code = 503
    /\ rag_engine = "None"
    /\ constructions = 0

\* C18: every result of get_system_status has system_ready = llm_connected
\* and document_system_ready; the two flags are the outcomes of the two
\* checks; a fault during the collection gives the three flags false plus the
\* error, and is not raised.
C18_StatusReady ==
    (last.op = "health" /\ last.result # NoResult) =>
        /\ "raised" \notin DOMAIN last.result
        /\ last.result.system_ready =
              (last.result.llm_connected /\ last.result.document_system_ready)
        /\ last.fault = "escape" =>
              /\ last.result.llm_connected = FALSE
              /\ last.result.document_system_ready = FALSE
              /\ last.result.system_ready = FALSE
              /\ "error" \in DOMAIN last.result
        /\ last.fault = "ok" =>
              /\ last.result.llm_connected = last.ctor.llm_up
              /\ last.result.document_system_ready = last.ctor.list_ok
              /\ "error" \notin DOMAIN last.result

C18_Witness ==
    /\ last.op = "health"
    /\ last.fault = "ok"
    /\ last.result # NoResult
    /\ last.result.llm_connected = TRUE
    /\ last.result.document_system_ready = FALSE
    /\ last.result.system_ready = FALSE
    /\ last.code = 200

\* C19: a request that needs the orchestrator and cannot construct it is
\* answered 503, on the health, upload, list and query endpoints alike.
C19_InitFailureIs503 ==
    (ReachedEngine /\ rag_engine = "None") => last.code = 503

\* C22: list_processed_documents returns success with file_count = the
\* number of files in the document store, documents = their names and
\* vector_chunk_count = the number of entries in the index; when the file
\* listing or the index count raises it returns an error result.
C22_ListCounts ==
    (last.op = "list" /\ last.result # NoResult) =>
        /\ "raised" \notin DOMAIN last.result
        /\ last.ctor.list_ok =>
              /\ last.result.status = "success"
              /\ last.result.file_count = Cardinality(DOMAIN files)
              /\ last.result.documents = DOMAIN files
              /\ last.result.vector_chunk_count = Len(index)
              /\ last.code = 200
        /\ ~last.ctor.list_ok =>
              /\ last.result.status = "error"
              /\ "error" \in DOMAIN last.result

\* one file whose ingest stored two chunks, listed
C22_Witness ==
    /\ last.op = "list"
    /\ last.code = 200
    /\ last.result.file_count = 1
    /\ last.result.vector_chunk_count = 2
    /\ Len(index) = 2

\* C30: a request whose construction fails leaves no instance; a request
\* that needs the orchestrator right after such a failure constructs again,
\* and gets an instance exactly when its own checks pass, the first and only
\* one so far.
C30_FailureNotRemembered ==
    [][/\ (rag_engine = "None" /\ ReachedEngine' /\ last'.ctor # CtorOk)
          => (rag_engine' = "None" /\ constructions' = constructions)
       /\ (last'.retry /\ ReachedEngine')
          => (/\ rag_engine = "None"
              /\ (rag_engine' = "RAGEngine") = (last'.ctor = CtorOk)
              /\ last'.ctor = CtorOk
                 => (/\ constructions = 0
                     /\ constructions' = 1
                     /\ last'.code # 503))]_vars

\* a listing right after a failed construction, answered by a new instance
C30_Witness ==
    /\ last.op = "list"
    /\ last.retry
    /\ last.ctor = CtorOk
    /\ last.code = 200
    /\ rag_engine = "RAGEngine"
    /\ constructions = 1

(***************************************************************************)
(* Properties of the components, checked under SpecComponents.             *)
(***************************************************************************)
\* C12: search_documents on an initialized, empty index returns a success
\* result with num_results = 0 and an empty results list, not an error.
C12_EmptyIndexSearchSucceeds ==
    (last.op = "search_documents" /\ last.search = "ok" /\ index = <<>>) =>
        /\ collection = "documents"
        /\ last.result.status = "success"
        /\ last.result.num_results = 0
        /\ last.result.results = <<>>
        /\ "error" \notin DOMAIN last.result

C12_Witness ==
    /\ last.op = "search_documents"
    /\ last.search = "ok"
    /\ index = <<>>
    /\ collection = "documents"
    /\ last.result.status = "success"
    /\ last.result.num_results = 0

\* C13: search_similar_chunks on an adapter whose collection was never
\* initialized raises the "No collection initialized" error, returns nothing,
\* and leaves the adapter without a collection and the index as it was.
C13_UninitializedSearchRaises ==
    [][(last'.op = "search_similar_chunks" /\ collection = "None")
       => (/\ last'.exc = NO_COLLECTION
           /\ last'.exc # "none"
           /\ last'.hits = <<>>
           /\ collection' = "None"
           /\ index' = index)]_vars

C13_Witness ==
    /\ last.op = "search_similar_chunks"
    /\ last.search = "ok"
    /\ last.exc = NO_COLLECTION
    /\ collection = "None"

\* C14: get_document_chunks, when the search does not fail, returns success;
\* every returned chunk is a stored entry whose metadata document_name is the
\* requested name; the chunks are in ascending chunk_index order; and a name
\* no stored entry carries gives success with an empty chunk list.
C14_ChunksOfDocument ==
    (last.op = "get_document_chunks" /\ last.search = "ok") =>
        /\ last.result.status = "success"
        /\ last.result.document_name = last.document_name
        /\ last.result.num_chunks = Len(last.result.chunks)
        /\ \A k \in 1..Len(last.result.chunks) :
              \E p \in 1..Len(index) :
                  /\ index[p].id = last.result.chunks[k].chunk_id
                  /\ index[p].metadata.document_name = last.document_name
                  /\ index[p].text = last.result.chunks[k].chunk_text
                  /\ index[p].metadata.chunk_index = last.result.chunks[k].chunk_index
        /\ \A k \in 1..(Len(last.result.chunks) - 1) :
              last.result.chunks[k].chunk_index <= last.result.chunks[k + 1].chunk_index
        /\ (last.document_name \notin StoredNames) => last.result.chunks = <<>>

C14_Witness ==
    /\ last.op = "get_document_chunks"
    /\ last.search = "ok"
    /\ last.order = "reversed"
    /\ last.document_name = FN_PDF
    /\ Len(last.result.chunks) = 4
    /\ last.result.chunks[1].chunk_index = 0
    /\ last.result.chunks[2].chunk_index = 0
    /\ last.result.chunks[3].chunk_index = 1
    /\ last.result.chunks[4].chunk_index = 1

\* the positions in the history of the successful ingests of a name
IngestsOf(name) == {k \in 1..Len(reported) : reported[k].filename = name}

\* the number of entries stored under a name
StoredFor(name) ==
    Cardinality({p \in 1..Len(index) : index[p].metadata.document_name = name})

\* C15: after a successful ingest of a document (ingested once, nothing else
\* stored under its name), get_document_chunks of its name returns as many
\* chunks as the ingest reported.
C15_ReturnsAllChunks ==
    (last.op = "get_document_chunks" /\ last.search = "ok") =>
        \A k \in IngestsOf(last.document_name) :
            (IngestsOf(last.document_name) = {k}
               /\ StoredFor(last.document_name) = reported[k].num_chunks)
            => (/\ last.result.status = "success"
                /\ last.result.num_chunks = reported[k].num_chunks)

\* C20: generate_answer never raises: when the prompt construction or the
\* inference call fails it returns an empty answer, no sources,
\* success = FALSE and the error message; when they succeed it returns
\* success = TRUE with the distinct document names of the chunks as sources.
C20_GenerateNeverRaises ==
    last.op = "generate_answer" =>
        /\ "raised" \notin DOMAIN last.result
        /\ last.gen # "ok" =>
              /\ last.result.answer = ""
              /\ last.result.sources = {}
              /\ last.result.success = FALSE
              /\ last.result.error_message =
                    (IF last.gen = "prompt" THEN "prompt fault" ELSE "inference fault")
        /\ last.gen = "ok" =>
              /\ last.result.success = TRUE
              /\ \A k \in 1..Len(last.relevant_chunks) :
                    last.relevant_chunks[k].document_name \in last.result.sources
              /\ \A n \in last.result.sources :
                    \E k \in 1..Len(last.relevant_chunks) :
                        last.relevant_chunks[k].document_name = n

C20_Witness ==
    /\ last.op = "generate_answer"
    /\ last.gen = "fault"
    /\ Len(last.relevant_chunks) = 2
    /\ last.result.success = FALSE
    /\ last.result.error_message = "inference fault"

(***************************************************************************)
(* The two readings of a filename's extension: the upload route's          *)
(* os.path.splitext (routes.py:70) and the pipeline's Path(...).suffix     *)
(* (document_processor.py:49), on POSIX paths.                             *)
(***************************************************************************)
MaxPrefix == 4       \* longest enumerated beginning of a filename

NameChars == {"a", ".", "/"}
NamePrefixes == UNION {[1..n -> NameChars] : n \in 0..MaxPrefix}
NameTails == {EXT_TXT, <<".", "T", "X", "T">>, EXT_PDF, EXT_DOCX,
              <<".", "t", "x", "t", "/">>, <<".", "t", "x", "t", ".">>,
              <<"t", "x", "t">>, <<".", "e", "x", "e">>, <<".", "t", "x">>}
Names == {pre \o tail : pre \in NamePrefixes, tail \in NameTails}

\* upload_document, routes.py:70-76: the allow-list check of one filename
NameCheck ==
    /\ last.op = "none"
    /\ \E filename \in Names :
         last' = [op |-> "upload_check", filename |-> filename,
                  accepted |-> upload_allowed(filename)]
    /\ UNCHANGED <<rag_engine, files, index, ingests, collection, reported,
                   constructions, requests>>
    /\ UNCHANGED ctvars

\* document_processor.py:49-50 on an accepted filename: the extension the
\* pipeline derives and what the extractor makes of it
NameExtract ==
    /\ last.op = "upload_check"
    /\ last.accepted
    /\ \E lib \in LibOutcomes :
       \E file_extension \in {lower(path_suffix(last.filename))} :
         last' = [op |-> "extension", filename |-> last.filename,
                  file_extension |-> file_extension, lib_ok |-> lib.ok,
                  exc |-> extract_text_from_bytes(BinaryDoc, file_extension, lib).exc]
    /\ UNCHANGED <<rag_engine, files, index, ingests, collection, reported,
                   constructions, requests>>
    /\ UNCHANGED ctvars

NamesNext == NameCheck \/ NameExtract

SpecNames == Init /\ [][NamesNext]_vars

(***************************************************************************)
(* clean_text called on its own, then on its own result.                   *)
(***************************************************************************)
\* a letter, the two separators clean_text writes, and two further
\* whitespace characters (tab, no-break space)
CleanAlphabet == {97, SPACE, NEWLINE, 9, 160}
CleanTexts == UNION {[1..n -> CleanAlphabet] : n \in 0..MaxLen}

\* clean_text(text), text_processor.py:96-117
CleanFirst ==
    /\ last.op = "none"
    /\ \E text \in CleanTexts :
         last' = [op |-> "clean_text", pass |-> 1, text |-> text,
                  given |-> text, out |-> clean_text(text)]
    /\ UNCHANGED <<rag_engine, files, index, ingests, collection, reported,
                   constructions, requests>>
    /\ UNCHANGED ctvars

\* clean_text on the text the first call returned
CleanSecond ==
    /\ last.op = "clean_text"
    /\ last.pass = 1
    /\ last' = [op |-> "clean_text", pass |-> 2, text |-> last.text,
                given |-> last.out, out |-> clean_text(last.out)]
    /\ UNCHANGED <<rag_engine, files, index, ingests, collection, reported,
                   constructions, requests>>
    /\ UNCHANGED ctvars

CleanNext == CleanFirst \/ CleanSecond

SpecClean == Init /\ [][CleanNext]_vars

\* C23: no call removes a stored entry or changes its id, text or metadata:
\* after every step the index begins with the index before the step, so its
\* length never decreases.
C23_ChunksPermanent ==
    [][/\ Len(index') >= Len(index)
       /\ SubSeq(index', 1, Len(index)) = index]_vars

\* two adds under one name, then a listing
C23_Witness ==
    /\ last.op = "list_processed_documents"
    /\ last.result.status = "success"
    /\ last.result.vector_chunk_count = 4
    /\ Len(index) = 4
    /\ \A k \in 1..4 : index[k].metadata.document_name = FN_PDF

\* C24: an ingest that fails after the save step (a name no extractor
\* handles, an extraction fault, an index fault) leaves its file in the
\* store with the bytes it was given and the index as it was; no step ever
\* takes a file out of the store; and a listing counts every stored file.
C24_NoRollback ==
    [][/\ (/\ last'.op = "process_and_store_document"
           /\ ingests' = ingests + 1
           /\ last'.result.status = "error")
          => (/\ last'.filename \in DOMAIN files'
              /\ files'[last'.filename] = last'.content
              /\ \A n \in DOMAIN files :
                    n # last'.filename => files'[n] = files[n]
              /\ index' = index)
       /\ DOMAIN files \subseteq DOMAIN files'
       /\ (last'.op = "list_processed_documents" /\ last'.list_ok)
          => (/\ last'.result.documents = DOMAIN files'
              /\ last'.result.file_count = Cardinality(DOMAIN files')
              /\ last'.result.vector_chunk_count = Len(index'))]_vars

\* the only ingest was of a name no extractor handles; the listing counts
\* its file and no chunk
C24_Witness ==
    /\ last.op = "list_processed_documents"
    /\ last.result.status = "success"
    /\ last.result.documents = {FN_EXE}
    /\ last.result.file_count = 1
    /\ last.result.vector_chunk_count = 0
    /\ files[FN_EXE] = BinaryDoc
    /\ index = <<>>
    /\ reported = <<>>

\* C25: add_document_chunks(chunks, document_name) appends len(chunks)
\* entries; entry k carries chunk_index k (from 0), chunk_length = the length
\* of its text and the document name; and after the call no two entries of
\* the index share an id, also when the name was added before.
C25_AddChunks ==
    [][(last'.op = "add_document_chunks" /\ ingests' = ingests + 1)
       => (/\ Len(index') = Len(index) + last'.num_chunks
           /\ \A k \in 1..last'.num_chunks :
                 /\ index'[Len(index) + k].metadata.chunk_index = k - 1
                 /\ index'[Len(index) + k].metadata.chunk_length
                       = Len(index'[Len(index) + k].text)
                 /\ index'[Len(index) + k].metadata.document_name
                       = last'.document_name
           /\ \A p, q \in 1..Len(index') :
                 p # q => index'[p].id # index'[q].id)]_vars

\* the same name added twice: positions 0, 1 and again 0, 1
C25_Witness ==
    /\ last.op = "add_document_chunks"
    /\ last.document_name = FN_TXT
    /\ Len(index) = 4
    /\ \A k \in 1..4 : index[k].metadata.document_name = FN_TXT
    /\ index[1].metadata.chunk_index = index[3].metadata.chunk_index
    /\ index[1].id # index[3].id

(***************************************************************************)
(* Properties of concurrent requests, checked under SpecConc.              *)
(***************************************************************************)
\* C17: under any interleaving of requests, no instance exists before a
\* request that needs one reaches get_rag_engine, RAGEngine() returns an
\* instance at most once, and once an instance is retained every later step
\* keeps it and constructs no other.
C17_ConstructedOnce ==
    /\ (rag_engine = "None" /\ constructions = 0)
    /\ [][/\ constructions' <= 1
          /\ (rag_engine' # "None") = (constructions' = 1)
          /\ rag_engine # "None" =>
                (rag_engine' = rag_engine /\ constructions' = constructions)
          /\ constructions' # constructions =>
                (rag_engine = "None" /\ ReachedEngine')]_vars

\* an upload that arrived when no instance existed resumes after another
\* request has constructed one, and is served by it
C17_Witness ==
    /\ last.op = "upload"
    /\ "seen" \in DOMAIN last
    /\ last.seen = "None"
    /\ ~last.constructed
    /\ last.code = 200
    /\ rag_engine = "RAGEngine"
    /\ constructions = 1
    /\ requests # <<>>

(***************************************************************************)
(* Properties of clean_text, checked under SpecClean.                      *)
(***************************************************************************)
\* no whitespace at either end, only single spaces and single newlines
\* inside: no empty line, no line that starts or ends with whitespace, no
\* two whitespace characters in a row
Normalized(t) ==
    /\ t # <<>> => (t[1] \notin WHITESPACE /\ t[Len(t)] \notin WHITESPACE)
    /\ \A i \in 1..Len(t) :
          t[i] \in WHITESPACE =>
              /\ t[i] \in {SPACE, NEWLINE}
              /\ i < Len(t) => t[i + 1] \notin WHITESPACE

\* C21: clean_text(clean_text(t)) = clean_text(t) for every text t, and
\* every text clean_text returns has no empty line, no line with leading or
\* trailing whitespace and no run of two whitespace characters.
C21_CleanIdempotent ==
    last.op = "clean_text" =>
        /\ Normalized(last.out)
        /\ last.pass = 2 => last.out = last.given

C21_Witness ==
    /\ last.op = "clean_text"
    /\ last.pass = 2
    /\ last.text = <<9, 97, NEWLINE, NEWLINE, SPACE>>
    /\ last.given = <<97>>
    /\ last.out = <<97>>

(***************************************************************************)
(* Properties of the filename readings, checked under SpecNames.           *)
(***************************************************************************)
\* C28: for every filename the upload route accepts, the extension the
\* pipeline derives is .txt, .pdf or .docx, the same one the route saw, and
\* the extractor does not answer with the unsupported-type error.
C28_AcceptedIsExtractable ==
    last.op = "extension" =>
        /\ last.file_extension \in {EXT_TXT, EXT_PDF, EXT_DOCX}
        /\ last.file_extension = lower(splitext_ext(last.filename))
        /\ last.exc # "Unsupported file type"

\* an accepted name with a directory part and an upper-case extension
C28_Witness ==
    /\ last.op = "extension"
    /\ last.filename = <<".", "/", "a", ".", "T", "X", "T">>
    /\ last.file_extension = EXT_TXT
    /\ last.exc = "none"

====
